---- MODULE Spec2Model ----
(***************************************************************************)
(* A model of src/lambdas/es/indexer/index.py: the DocumentQueue that      *)
(* batches documents for the Elasticsearch bulk API and replays documents  *)
(* rejected with a mapper_parsing_exception; retry_s3, the bounded retry   *)
(* around the S3 head/get calls; trim_to_bytes and get_contents, which     *)
(* produce the text of a document; and handler, the loop over the messages *)
(* of an event and the records of a message.                               *)
(***************************************************************************)
EXTENDS Integers, Sequences, FiniteSets, TLC

----------------------------------------------------------------------------
(* Bounds of the model *)

\* most documents one queue is given
MaxDocs == 2
\* stand-in for the 10_000 of DOC_SIZE_LIMIT_BYTES
DocLimitScaled == 3
\* stand-in for the 100_000_000 of QUEUE_LIMIT_BYTES
QueueLimitScaled == 5
\* most calls of send_all one queue sees, those made by append included
MaxFlushes == 2
\* deepest queue generation for which the sink may still reject documents
MaxGen == 3
\* longest one S3 call takes, in seconds
MaxCallSeconds == 2
\* longest string, in characters
MaxLen == 3
\* most messages of one event handler is given
MaxMessages == 2
\* most records of one message
MaxRecords == 2

----------------------------------------------------------------------------
(* Program constants *)

\* index.py:32 and index.py:40 set 10_000 and 100_000_000. The queue only
\* adds capped sizes and compares the sum with the threshold, so the model
\* keeps the two as small numbers with the threshold above the cap.
DOC_SIZE_LIMIT_BYTES == DocLimitScaled
QUEUE_LIMIT_BYTES == QueueLimitScaled
MAX_RETRY == 10
OBJECT_DELETE == "ObjectRemoved:Delete"
OBJECT_PUT == "ObjectCreated:Put"

Min(a, b) == IF a < b THEN a ELSE b

----------------------------------------------------------------------------
(* Python values *)

\* A mapping is modelled by the set of its keys; None and a key that a
\* document does not have are values of their own.
None == [tag |-> "None", keys |-> {}]
Absent == [tag |-> "absent", keys |-> {}]
Map(ks) == [tag |-> "dict", keys |-> ks]
EmptyMap == Map({})

\* Python truthiness of a mapping-or-None value
Truthy(v) == v.tag = "dict" /\ v.keys # {}

\* meta.get("helium") of the metadata the caller passes to append: no
\* helium block, an empty one, and one with a user_meta block, a comment
\* and a key of its own.
NoHelium == None
FullHelium == Map({"user_meta", "comment", "extra"})

\* transform_meta: pops user_meta, comment and target out of a non-empty
\* helium block; system_meta is what is left of helium (None without one).
transform_meta(helium) ==
    LET has(k) == Truthy(helium) /\ k \in helium.keys
        rest == IF Truthy(helium)
                  THEN Map(helium.keys \ {"user_meta", "comment", "target"})
                  ELSE helium
        user_meta == IF has("user_meta") THEN Map({"u"}) ELSE EmptyMap
        comment == IF has("comment") THEN "c" ELSE ""
        target == IF has("target") THEN "t" ELSE ""
    IN  [system_meta |-> rest,
         user_meta |-> user_meta,
         comment |-> comment,
         target |-> target,
         meta_text |-> <<comment, target>>
                        \o (IF Truthy(rest) THEN <<"json(helium)">> ELSE <<>>)
                        \o (IF Truthy(user_meta) THEN <<"json(user_meta)">> ELSE <<>>)]

----------------------------------------------------------------------------
(* Documents *)

Keys == {"a", "b"}
VersionId == "v1"

\* "_id": f"{key}:{version_id}"
DocId(key, version_id) == <<key, version_id>>
Ids == {DocId(k, VersionId) : k \in Keys}

\* the body append builds; system is the key the replay adds, absent in a
\* document as built
Body(event_type, size, helium, key, text, version_id) ==
    LET m == transform_meta(helium)
    IN  [id |-> DocId(key, version_id),
         op_type |-> IF event_type = OBJECT_DELETE THEN "delete" ELSE "index",
         event |-> event_type,
         size |-> size,
         text |-> text,
         key |-> key,
         version_id |-> version_id,
         system_meta |-> m.system_meta,
         user_meta |-> m.user_meta,
         comment |-> m.comment,
         target |-> m.target,
         meta_text |-> m.meta_text \o <<key>>,
         system |-> Absent]

----------------------------------------------------------------------------
(* The sink: what one bulk call can answer *)

\* Per submitted item: accepted, or an error descriptor whose error is a
\* mapping with type mapper_parsing_exception ("mapper"), a mapping of
\* another type ("other"), no mapping at all: a bare string or nothing
\* ("string"), or a mapping whose type is not a string, on which the
\* classification raises ("malformed").
Kinds == {"ok", "mapper", "other", "string", "malformed"}

\* A delete carries no source to parse: the sink never answers it with a
\* mapper_parsing_exception.
ItemKinds(doc) == IF doc.op_type = "delete" THEN Kinds \ {"mapper"} ELSE Kinds

\* What the bulk call of a queue of a later generation answers.
NestedOutcomes == {"bulk_raises", "accepts", "rejects"}

\* One send_all of the first-generation queue draws: whether the session is
\* built, whether bulk raises, the answer per item, and the answer given to
\* the queues of later generations.
SessionFails == [session |-> "fail", bulk |-> "none", items |-> <<>>, nested |-> "accepts"]
BulkRaises == [session |-> "ok", bulk |-> "raise", items |-> <<>>, nested |-> "accepts"]
\* without a mapper rejection no later generation has documents: the nested
\* answer is never asked for
Unheard(queue) ==
    [session : {"ok"}, bulk : {"return"}, nested : NestedOutcomes,
     items : [1..Len(queue) -> Kinds \ {"mapper"}]]
SinkInputs(queue) ==
    {SessionFails, BulkRaises} \cup
    ({[session |-> "ok", bulk |-> "return", items |-> f, nested |-> n] :
        f \in {g \in [1..Len(queue) -> Kinds] :
                 \A i \in 1..Len(queue) : g[i] \in ItemKinds(queue[i])},
        n \in NestedOutcomes} \ {s \in Unheard(queue) : s.nested # "accepts"})

\* The answer to the queue of generation gen: the drawn one for the first,
\* the nested one after it; past MaxGen the sink accepts everything.
SinkAt(sink, gen, queue) ==
    IF gen = 1 THEN sink
    ELSE IF sink.nested = "bulk_raises" THEN BulkRaises
    ELSE [session |-> "ok", bulk |-> "return", nested |-> sink.nested,
          items |-> [i \in 1..Len(queue) |->
                       IF sink.nested = "rejects" /\ gen <= MaxGen
                         THEN IF queue[i].op_type = "delete" THEN "other" ELSE "mapper"
                         ELSE "ok"]]

\* errors, the second value bulk returns: one descriptor per rejected item,
\* under the key of the item's operation.
RECURSIVE Errors(_, _, _)
Errors(queue, items, i) ==
    IF i > Len(queue) THEN <<>>
    ELSE (IF items[i] = "ok" THEN <<>>
          ELSE <<[key |-> queue[i].op_type, id |-> queue[i].id, error |-> items[i]]>>)
         \o Errors(queue, items, i + 1)

----------------------------------------------------------------------------
(* DocumentQueue *)

\* (mutant) the constructor drops its retry_errors argument
DocumentQueueAlwaysRetries(retry_errors) == [queue |-> <<>>, retry_errors |-> TRUE, size |-> 0]

\* __init__
DocumentQueue(retry_errors) == [queue |-> <<>>, retry_errors |-> retry_errors, size |-> 0]

append_document(self, doc) == [self EXCEPT !.queue = Append(@, doc)]

is_empty(self) == Len(self.queue) = 0

\* (mutant) the size is counted without the cap
ContributionUncapped(size, text) == IF text # "" THEN size ELSE 0

\* what append adds to the running total: "if text: self.size += min(...)"
Contribution(size, text) == IF text # "" THEN Min(size, DOC_SIZE_LIMIT_BYTES) ELSE 0

\* (mutant) the flush starts on reaching the threshold
OverLimitInclusive(size) == size >= QUEUE_LIMIT_BYTES

\* "if self.size > QUEUE_LIMIT_BYTES"
OverLimit(size) == size > QUEUE_LIMIT_BYTES

\* (mutant) every error that is a mapping is replayed, whatever its type
IsAnyMappingError(error) == error.key = "index" /\ error.error \in {"mapper", "other"}

\* isinstance(error_info, dict) and 'mapper_parsing_exception' in error_type,
\* for the descriptor's error.get("index", {})
IsMapperError(error) == error.key = "index" /\ error.error = "mapper"

\* 'in' on a type that is no string raises
ClassifyRaises(error) == error.key = "index" /\ error.error = "malformed"

\* next(doc for doc in self.queue if doc["_id"] == doc_id)
FirstWithId(queue, doc_id) ==
    CHOOSE i \in 1..Len(queue) :
        queue[i].id = doc_id /\ \A j \in 1..(i - 1) : queue[j].id # doc_id

\* replay['user_meta'] = replay['system'] = {}
Strip(doc) == [doc EXCEPT !.user_meta = EmptyMap, !.system = EmptyMap]

\* The loop over errors. replay is the document object of self.queue itself,
\* so the queue's document is changed where it stands. The loop ends at the
\* first descriptor on which it raises.
RECURSIVE classify(_, _, _, _)
classify(queue, errors, i, error_queue) ==
    IF i > Len(errors)
      THEN [queue |-> queue, error_queue |-> error_queue, raised |-> FALSE]
    ELSE IF ClassifyRaises(errors[i])
      THEN [queue |-> queue, error_queue |-> error_queue, raised |-> TRUE]
    ELSE IF IsMapperError(errors[i])
      THEN LET at == FirstWithId(queue, errors[i].id)
               replay == Strip(queue[at])
           IN  classify([queue EXCEPT ![at] = replay], errors, i + 1,
                        append_document(error_queue, replay))
    ELSE classify(queue, errors, i + 1, error_queue)

Event(ev, gen, ids, nerr) == [ev |-> ev, gen |-> gen, ids |-> ids, nerr |-> nerr]
IdsOf(queue) == [i \in 1..Len(queue) |-> queue[i].id]

\* What one call of send_all comes to.
\*   self: the queue object after the call;  raised: an exception left
\*   send_all;  trace: the calls made, in order;  returned: this queue's bulk
\*   call returned;  errors: what it returned;  error_queue: the documents
\*   of the error queue this call built;  classified: the loop over errors
\*   ran to its end
Outcome(self, raised, trace, returned, errors, error_queue, classified) ==
    [self |-> self, raised |-> raised, trace |-> trace, returned |-> returned,
     errors |-> errors, error_queue |-> error_queue, classified |-> classified]

\* send_all of the queue object self of generation gen; es_host: ES_HOST is
\* in the environment.
RECURSIVE send_all(_, _, _, _)
send_all(self, gen, es_host, sink) ==
    LET called == <<Event("send_all", gen, IdsOf(self.queue), 0)>>
        answer == SinkAt(sink, gen, self.queue)
    IN
    IF is_empty(self)
      THEN Outcome(self, FALSE, called, FALSE, <<>>, <<>>, FALSE)
    \* elastic_host = os.environ["ES_HOST"] stands before the try
    ELSE IF ~es_host
      THEN Outcome(self, TRUE, called, FALSE, <<>>, <<>>, FALSE)
    \* AWSRequestsAuth(...), Elasticsearch(...) raise: caught
    ELSE IF answer.session = "fail"
      THEN Outcome(self, FALSE, called, FALSE, <<>>, <<>>, FALSE)
    \* bulk(...) raises: caught, self.size is not reset
    ELSE IF answer.bulk = "raise"
      THEN Outcome(self, FALSE,
                   called \o <<Event("bulk", gen, IdsOf(self.queue), 0 - 1)>>,
                   FALSE, <<>>, <<>>, FALSE)
    ELSE
      LET errors == Errors(self.queue, answer.items, 1)
          bulked == called \o <<Event("bulk", gen, IdsOf(self.queue), Len(errors))>>
          reset == [self EXCEPT !.size = 0]
      IN
      IF ~self.retry_errors
        THEN Outcome(reset, FALSE, bulked, TRUE, errors, <<>>, FALSE)
      ELSE
        LET error_queue == DocumentQueue(FALSE)
            built == bulked \o <<Event("DocumentQueue", gen + 1, <<>>, 0)>>
            c == classify(reset.queue, errors, 1, error_queue)
            after == [reset EXCEPT !.queue = c.queue]
        IN
        IF c.raised
          THEN Outcome(after, FALSE, built, TRUE, errors, c.error_queue.queue, FALSE)
        ELSE
          \* error_queue.send_all(), inside the try
          LET r == send_all(c.error_queue, gen + 1, es_host, sink)
          IN  Outcome(after, FALSE, built \o r.trace, TRUE, errors,
                      c.error_queue.queue, TRUE)

\* append: the queue object after it and what its send_all, if any, came to
append(self, event_type, size, helium, key, text, version_id, es_host, sink) ==
    LET counted == [self EXCEPT !.size = @ + Contribution(size, text)]
        body == Body(event_type, size, helium, key, text, version_id)
        queued == append_document(counted, body)
    IN  IF OverLimit(queued.size)
          THEN send_all(queued, 1, es_host, sink)
          ELSE Outcome(queued, FALSE, <<>>, FALSE, <<>>, <<>>, FALSE)

----------------------------------------------------------------------------
(* The queue driven by its caller *)

VARIABLES
    batch_processor,  \* the first-generation DocumentQueue: queue, retry_errors, size
    es_host,          \* ES_HOST is set in the environment
    last,             \* the call on batch_processor under way and what it came to
    replays,          \* per _id: bulk calls of error queues that submitted it (0, 1, more)
    lost,             \* positions in queue of the documents of a bulk call that raised
    flushes           \* calls of send_all on batch_processor so far

\* one call of retry_s3
VARIABLES
    pc,               \* "idle", "calling" (an attempt is under way), "done"
    time_remaining,   \* get_time_remaining(context), read once on entry
    now,              \* seconds since the retrying began
    attempt_number,   \* tenacity's count of the attempt under way
    started,          \* the time at which the last attempt began
    request,          \* the keyword arguments of the attempt under way
    result,           \* how retry_s3 ended
    args              \* operation, size and version_id retry_s3 was called with

\* one call of trim_to_bytes and a second one on its result
VARIABLES
    trim_string,      \* the string given
    trim_limit,       \* the limit given
    trimmed,          \* trim_to_bytes(trim_string, trim_limit), once computed
    retrimmed         \* trim_to_bytes of trimmed, once computed

\* one call of get_contents
VARIABLES
    object,           \* the S3 object the call is about
    content           \* what get_contents came to

\* one invocation of handler; its queue is batch_processor
VARIABLES
    hpc,              \* "idle", "message" (at the loop over the messages),
                      \* "records" (in the loop over a message's records), "done"
    message,          \* handler's local message: unbound, or the message taken last
    event_,           \* handler's local event_: unbound, or the record taken last
    size_,            \* handler's local size: unbound, or the ContentLength read last
    seen,             \* the kinds of the messages taken so far, in order
    ri,               \* the position of the next record of message
    outcomes,         \* per record of message taken so far: "appended" or the exception
    probes,           \* per record of message taken so far: S3 has the answers for it
    summary,          \* documents appended and send_all calls made for message
    hresult           \* how handler ended

queueVars == <<batch_processor, es_host, last, replays, lost, flushes>>
retryVars == <<pc, time_remaining, now, attempt_number, started, request, result, args>>
trimVars == <<trim_string, trim_limit, trimmed, retrimmed>>
contentsVars == <<object, content>>
handlerVars == <<hpc, message, event_, size_, seen, ri, outcomes, probes, summary, hresult>>
restVars == <<trimVars, contentsVars, handlerVars>>
vars == <<queueVars, retryVars, restVars>>

\* what handler passes to append: the call for a changed object and the
\* call for a deleted one (size and meta left at their defaults)
AppendArgs ==
    {[event_type |-> OBJECT_PUT, size |-> 2, helium |-> FullHelium, key |-> "a", text |-> "t"],
     [event_type |-> OBJECT_PUT, size |-> DOC_SIZE_LIMIT_BYTES + 1, helium |-> EmptyMap,
      key |-> "b", text |-> "t"],
     [event_type |-> OBJECT_PUT, size |-> DOC_SIZE_LIMIT_BYTES + 1, helium |-> FullHelium,
      key |-> "a", text |-> ""],
     [event_type |-> OBJECT_DELETE, size |-> 0, helium |-> NoHelium, key |-> "a", text |-> ""]}

NoCall ==
    [op |-> "none", before |-> <<>>, size_added |-> 0, raised |-> FALSE, trace |-> <<>>,
     returned |-> FALSE, errors |-> <<>>, error_queue |-> <<>>, classified |-> FALSE,
     resent |-> {}]

\* the events of trace that are ev at generation gen
EventsOf(trace, ev, gen) ==
    {i \in 1..Len(trace) : trace[i].ev = ev /\ trace[i].gen = gen}

\* the number of bulk calls of error queues that submit a document with id
Replayed(trace, id) ==
    Cardinality({i \in 1..Len(trace) :
                    /\ trace[i].ev = "bulk" /\ trace[i].gen >= 2
                    /\ \E j \in 1..Len(trace[i].ids) : trace[i].ids[j] = id})

\* the bookkeeping of one call: op on the queue holding `before`, with the
\* running total size_added when the threshold was looked at, came to r
Observe(op, before, size_added, r) ==
    LET submitted == IF EventsOf(r.trace, "bulk", 1) # {} THEN 1..Len(before) ELSE {}
        raisedInBulk == \E i \in EventsOf(r.trace, "bulk", 1) : r.trace[i].nerr < 0
    IN  /\ batch_processor' = r.self
        /\ last' = [op |-> op, before |-> before, size_added |-> size_added,
                    raised |-> r.raised, trace |-> r.trace, returned |-> r.returned,
                    errors |-> r.errors, error_queue |-> r.error_queue,
                    classified |-> r.classified,
                    \* documents of an earlier bulk call that raised, submitted again
                    resent |-> lost \cap submitted]
        /\ replays' = [id \in Ids |-> Min(2, replays[id] + Replayed(r.trace, id))]
        /\ lost' = IF raisedInBulk THEN lost \cup submitted ELSE lost
        /\ flushes' = flushes + Cardinality(EventsOf(r.trace, "send_all", 1))
        /\ UNCHANGED <<es_host, retryVars, restVars>>

NoRequest == [Range |-> <<>>, VersionId |-> "", IfMatch |-> ""]
NoResult == [kind |-> "none", attempt |-> 0]
NoArgs == [operation |-> "none", size |-> 0, version_id |-> "None"]

\* no call of retry_s3 is under way
RetryIdle ==
    /\ pc = "idle"
    /\ time_remaining = 0
    /\ now = 0
    /\ attempt_number = 0
    /\ started = 0
    /\ request = NoRequest
    /\ result = NoResult
    /\ args = NoArgs

NotTrimmed == [done |-> FALSE, string |-> <<>>]
NoObject == [ext |-> "", string |-> <<>>, wellformed |-> FALSE, version_id |-> "None"]
NoContent == [done |-> FALSE, raised |-> "none", text |-> <<>>]

\* no call of trim_to_bytes is under way
TrimIdle ==
    /\ trim_string = <<>>
    /\ trim_limit = 0
    /\ trimmed = NotTrimmed
    /\ retrimmed = NotTrimmed

\* no call of get_contents is under way
ContentsIdle ==
    /\ object = NoObject
    /\ content = NoContent

NoMessage == [kind |-> "none", records |-> <<>>]
NoRecord ==
    [malformed |-> TRUE, eventName |-> "", key |-> "", object |-> NoObject, helium |-> None]
UnboundMessage == [bound |-> FALSE, value |-> NoMessage]
UnboundRecord == [bound |-> FALSE, value |-> NoRecord]
UnboundSize == [bound |-> FALSE, value |-> 0]
Bound(v) == [bound |-> TRUE, value |-> v]
NoSummary == [docs |-> 0, send_alls |-> 0]
NoHandlerResult == [kind |-> "none", exc |-> "none", cause |-> "none", at |-> "none"]

\* handler is not invoked
HandlerIdle ==
    /\ hpc = "idle"
    /\ message = UnboundMessage
    /\ event_ = UnboundRecord
    /\ size_ = UnboundSize
    /\ seen = <<>>
    /\ ri = 1
    /\ outcomes = <<>>
    /\ probes = <<>>
    /\ summary = NoSummary
    /\ hresult = NoHandlerResult

RestIdle == TrimIdle /\ ContentsIdle /\ HandlerIdle

\* no call on a DocumentQueue is under way
QueueIdle ==
    /\ batch_processor = DocumentQueue(TRUE)
    /\ es_host = TRUE
    /\ last = NoCall
    /\ replays = [id \in Ids |-> 0]
    /\ lost = {}
    /\ flushes = 0

QueueInit ==
    /\ batch_processor = DocumentQueue(TRUE)
    /\ es_host \in BOOLEAN
    /\ last = NoCall
    /\ replays = [id \in Ids |-> 0]
    /\ lost = {}
    /\ flushes = 0

Init == QueueInit /\ RetryIdle /\ RestIdle

\* the answers of the sink to draw for a call: a single one when the call
\* does not get to the sink (send_all is not reached, or ES_HOST is missing)
Drawn(queue, reached) ==
    IF es_host /\ reached THEN SinkInputs(queue) ELSE {SessionFails}

\* batch_processor.append(...), its send_all included
AppendDoc ==
    /\ last.op = "none"
    /\ Len(batch_processor.queue) < MaxDocs
    /\ flushes < MaxFlushes
    /\ \E a \in AppendArgs :
         LET before == Append(batch_processor.queue,
                              Body(a.event_type, a.size, a.helium, a.key, a.text, VersionId))
         IN  \E sink \in Drawn(before, OverLimit(batch_processor.size
                                                    + Contribution(a.size, a.text))) :
               Observe("append", before,
                       batch_processor.size + Contribution(a.size, a.text),
                       append(batch_processor, a.event_type, a.size, a.helium, a.key,
                              a.text, VersionId, es_host, sink))

\* batch_processor.send_all(), as handler calls it after the last record
SendAll ==
    /\ last.op = "none"
    /\ flushes < MaxFlushes
    /\ \E sink \in Drawn(batch_processor.queue, TRUE) :
          Observe("send_all", batch_processor.queue, batch_processor.size,
                  send_all(batch_processor, 1, es_host, sink))

\* the call is over: its frame (errors, error_queue, ...) is gone, the queue
\* object stays
Return ==
    /\ last.op # "none"
    /\ last' = NoCall
    /\ UNCHANGED <<batch_processor, es_host, replays, lost, flushes, retryVars, restVars>>

Next == AppendDoc \/ SendAll \/ Return

Spec == Init /\ [][Next]_vars

----------------------------------------------------------------------------
(* retry_s3 *)

\* context.get_remaining_time_in_millis() when retry_s3 is entered
Millis == {0, 999, 5900, 30000, 900000}

\* floor(context.get_remaining_time_in_millis()/1000)
get_time_remaining(millis) == millis \div 1000

RECURSIVE Pow2(_)
Pow2(n) == IF n = 0 THEN 1 ELSE 2 * Pow2(n - 1)

\* wait_exponential(multiplier=2, min=4, max=30): the sleep after the failed
\* attempt number attempt
wait_exponential(attempt) ==
    LET exp == 2 * Pow2(Min(attempt, 6))
    IN  IF exp < 4 THEN 4 ELSE IF exp > 30 THEN 30 ELSE exp

\* stop_after_delay(time_remaining), looked at when an attempt has failed
stop_after_delay(seconds_since_start, max_delay) == seconds_since_start >= max_delay

\* (mutant) the retrying gives up after the first failed attempt
StopAfterFirstAttempt(attempt) == attempt >= 1

\* stop_after_attempt(MAX_RETRY)
stop_after_attempt(attempt) == attempt >= MAX_RETRY

\* the keyword arguments call() passes to head_object or get_object; Range
\* is the empty tuple when no Range is passed
call(size, limit, etag, version_id) ==
    IF size = 0
      THEN IF version_id # "None"
             THEN [Range |-> <<>>, VersionId |-> version_id, IfMatch |-> ""]
             ELSE [Range |-> <<>>, VersionId |-> "", IfMatch |-> etag]
    ELSE IF version_id # "None"
      THEN [Range |-> <<"bytes=0-", limit>>, VersionId |-> version_id, IfMatch |-> ""]
      ELSE [Range |-> <<"0-", limit>>, VersionId |-> "", IfMatch |-> etag]

Operations == {"get", "head", "put"}
ObjectSizes == {0, 500}
VersionIds == {"None", "v1"}
ETag == "etag"

\* retry_s3 is entered: the operation is checked, the time remaining is read
\* and the first attempt begins
Enter ==
    /\ pc = "idle"
    /\ \E operation \in Operations, millis \in Millis,
          size \in ObjectSizes, version_id \in VersionIds :
         /\ args' = [operation |-> operation, size |-> size, version_id |-> version_id]
         /\ IF operation \notin {"get", "head"}
           THEN /\ pc' = "done"
                /\ result' = [kind |-> "ValueError", attempt |-> 0]
                /\ UNCHANGED <<time_remaining, now, attempt_number, started, request>>
           ELSE /\ pc' = "calling"
                /\ time_remaining' = get_time_remaining(millis)
                /\ attempt_number' = 1
                /\ started' = now
                /\ request' = call(size, DOC_SIZE_LIMIT_BYTES, ETag, version_id)
                /\ UNCHANGED <<now, result>>
    /\ UNCHANGED <<queueVars, restVars>>

\* the attempt under way ends after some seconds: with a response, which
\* retry_s3 returns, or with an exception, after which tenacity stops with a
\* RetryError or sleeps and begins the next attempt
Attempt ==
    /\ pc = "calling"
    /\ \E seconds \in 0..MaxCallSeconds, ok \in BOOLEAN :
         LET ended == now + seconds
         IN  IF ok
               THEN /\ pc' = "done"
                    /\ now' = ended
                    /\ result' = [kind |-> "returned", attempt |-> attempt_number]
                    /\ UNCHANGED <<attempt_number, started>>
             ELSE IF stop_after_delay(ended, time_remaining)
                       \/ stop_after_attempt(attempt_number)
               THEN /\ pc' = "done"
                    /\ now' = ended
                    /\ result' = [kind |-> "RetryError", attempt |-> attempt_number]
                    /\ UNCHANGED <<attempt_number, started>>
             ELSE /\ now' = ended + wait_exponential(attempt_number)
                  /\ attempt_number' = attempt_number + 1
                  /\ started' = now'
                  /\ UNCHANGED <<pc, result>>
    /\ UNCHANGED <<time_remaining, request, args, queueVars, restVars>>

RetryInit ==
    /\ QueueIdle
    /\ RetryIdle
    /\ RestIdle

RetryNext == Enter \/ Attempt

SpecRetry == RetryInit /\ [][RetryNext]_vars

----------------------------------------------------------------------------
(* Strings and their UTF-8 encoding *)

\* A character is known by the number of bytes of its UTF-8 encoding, a
\* string is a sequence of characters.
Widths == 1..4

RECURSIVE SeqsUpTo(_, _)
SeqsUpTo(set, n) ==
    IF n = 0 THEN {<<>>}
    ELSE LET shorter == SeqsUpTo(set, n - 1)
         IN  shorter \cup {Append(q, x) : q \in {r \in shorter : Len(r) = n - 1}, x \in set}

Strings == SeqsUpTo(Widths, MaxLen)

\* string.encode("utf-8"): a character of n bytes is a leading byte, written
\* n, and n - 1 continuation bytes, written 0
RECURSIVE encode(_)
encode(string) ==
    IF string = <<>> THEN <<>>
    ELSE <<Head(string)>> \o [i \in 1..(Head(string) - 1) |-> 0] \o encode(Tail(string))

\* bytes.decode("utf-8", errors) read from position i: a leading byte with
\* all its continuation bytes is a character; any other byte is invalid and
\* is dropped under "ignore", raises UnicodeDecodeError under "strict"
RECURSIVE decode_from(_, _, _)
decode_from(bytes, i, errors) ==
    IF i > Len(bytes) THEN [raised |-> FALSE, string |-> <<>>]
    ELSE LET n == bytes[i]
             whole == /\ n >= 1
                      /\ i + n - 1 <= Len(bytes)
                      /\ \A j \in (i + 1)..(i + n - 1) : bytes[j] = 0
         IN  IF whole
               THEN LET r == decode_from(bytes, i + n, errors)
                    IN  [raised |-> r.raised, string |-> <<n>> \o r.string]
             ELSE IF errors = "ignore"
               THEN decode_from(bytes, i + 1, errors)
             ELSE [raised |-> TRUE, string |-> <<>>]

decode(bytes, errors) == decode_from(bytes, 1, errors)

\* (mutant) the string is cut, not its encoding: string[:limit]
trim_to_chars(string, limit) ==
    IF Len(encode(string)) <= limit THEN string
    ELSE SubSeq(string, 1, Min(limit, Len(string)))

\* trim_to_bytes: encoded[:limit].decode("utf-8", "ignore") when the
\* encoding is longer than limit
trim_to_bytes(string, limit) ==
    LET encoded == encode(string)
        size == Len(encoded)
    IN  IF size <= limit THEN string
        ELSE decode(SubSeq(encoded, 1, limit), "ignore").string

\* the limits trim_to_bytes is tried with: byte counts around the cap
Limits == 0..(DOC_SIZE_LIMIT_BYTES + 1)

TrimInit ==
    /\ QueueIdle
    /\ RetryIdle
    /\ ContentsIdle
    /\ HandlerIdle
    /\ trim_string \in Strings
    /\ trim_limit \in Limits
    /\ trimmed = NotTrimmed
    /\ retrimmed = NotTrimmed

\* trim_to_bytes(string, limit)
Trim ==
    /\ ~trimmed.done
    /\ trimmed' = [done |-> TRUE, string |-> trim_to_bytes(trim_string, trim_limit)]
    /\ UNCHANGED <<trim_string, trim_limit, retrimmed, queueVars, retryVars, contentsVars, handlerVars>>

\* trim_to_bytes of the result, with the same limit
TrimAgain ==
    /\ trimmed.done
    /\ ~retrimmed.done
    /\ retrimmed' = [done |-> TRUE, string |-> trim_to_bytes(trimmed.string, trim_limit)]
    /\ UNCHANGED <<trim_string, trim_limit, trimmed, queueVars, retryVars, contentsVars, handlerVars>>

TrimNext == Trim \/ TrimAgain

SpecTrim == TrimInit /\ [][TrimNext]_vars

----------------------------------------------------------------------------
(* get_contents *)

CONTENT_INDEX_EXTS == {".csv", ".html", ".ipynb", ".json", ".md", ".rmd", ".txt", ".xml"}

\* The objects get_contents is tried on: a text file, a notebook and a file
\* whose extension is not indexed. string is the text of a text file and the
\* joined sources of the code and markdown cells of a notebook; wellformed
\* says whether a notebook reads as a version 4 notebook.
Exts == {".txt", ".ipynb", ".bin"}
Objects == [ext : Exts, string : Strings, wellformed : BOOLEAN, version_id : VersionIds]

\* The bytes of the object in S3. A notebook is JSON around its cells: one
\* ASCII character before and one after stand for it.
ObjectBytes(o) ==
    IF o.ext = ".ipynb" THEN encode(<<1>> \o o.string \o <<1>>) ELSE encode(o.string)

\* What S3 does with one retry_s3("get", ...): the call returns or every
\* attempt fails (RetryError); a Range that is no byte range specifier is
\* ignored or rejected.
S3Outcomes == [fetch : {"returned", "RetryError"}, range : {"ignored", "rejected"}]

\* obj["Body"].read() of the response to request: Range bytes=0-n is
\* answered with the bytes 0 to n, both included
get_object(o, req, s3) ==
    LET bytes == ObjectBytes(o)
    IN  IF s3.fetch = "RetryError" THEN [raised |-> TRUE, bytes |-> <<>>]
        ELSE IF req.Range = <<>> THEN [raised |-> FALSE, bytes |-> bytes]
        ELSE IF req.Range[1] = "bytes=0-"
          THEN [raised |-> FALSE,
                bytes |-> SubSeq(bytes, 1, Min(Len(bytes), req.Range[2] + 1))]
        ELSE IF s3.range = "ignored" THEN [raised |-> FALSE, bytes |-> bytes]
        ELSE [raised |-> TRUE, bytes |-> <<>>]

\* extract_text: nbformat.reads raises on what is no whole notebook
extract_text(notebook_str, o) ==
    IF o.wellformed /\ notebook_str = <<1>> \o o.string \o <<1>>
      THEN [raised |-> FALSE, string |-> o.string]
      ELSE [raised |-> TRUE, string |-> <<>>]

\* get_notebook_cells: every exception is caught and leaves text = ""
get_notebook_cells(o, size, etag, version_id, s3) ==
    LET obj == get_object(o, call(size, DOC_SIZE_LIMIT_BYTES, etag, version_id), s3)
        notebook == decode(obj.bytes, "strict")
        text == extract_text(notebook.string, o)
    IN  IF obj.raised \/ notebook.raised \/ text.raised
          THEN [raised |-> "none", text |-> <<>>]
          ELSE [raised |-> "none", text |-> text.string]

\* get_plain_text: UnicodeDecodeError is caught and leaves text = "", the
\* error of retry_s3 is not caught
get_plain_text(o, size, etag, version_id, s3) ==
    LET obj == get_object(o, call(size, DOC_SIZE_LIMIT_BYTES, etag, version_id), s3)
        text == decode(obj.bytes, "strict")
    IN  IF obj.raised THEN [raised |-> "RetryError", text |-> <<>>]
        ELSE IF text.raised THEN [raised |-> "none", text |-> <<>>]
        ELSE [raised |-> "none", text |-> text.string]

get_contents(o, ext, etag, version_id, size, s3) ==
    IF ext \in CONTENT_INDEX_EXTS
      THEN IF ext = ".ipynb"
             THEN LET cells == get_notebook_cells(o, size, etag, version_id, s3)
                  IN  [raised |-> cells.raised,
                       text |-> trim_to_bytes(cells.text, DOC_SIZE_LIMIT_BYTES)]
             ELSE get_plain_text(o, size, etag, version_id, s3)
      ELSE [raised |-> "none", text |-> <<>>]

ContentsInit ==
    /\ QueueIdle
    /\ RetryIdle
    /\ TrimIdle
    /\ HandlerIdle
    /\ object \in Objects
    /\ content = NoContent

\* get_contents(...) for object, with the size its head gave
GetContents ==
    /\ ~content.done
    /\ \E s3 \in S3Outcomes :
         LET r == get_contents(object, object.ext, ETag, object.version_id,
                               Len(ObjectBytes(object)), s3)
         IN  content' = [done |-> TRUE, raised |-> r.raised, text |-> r.text]
    /\ UNCHANGED <<object, queueVars, retryVars, trimVars, handlerVars>>

ContentsNext == GetContents

SpecContents == ContentsInit /\ [][ContentsNext]_vars

----------------------------------------------------------------------------
(* handler *)

TEST_EVENT == "s3:TestEvent"

\* The records of a message: one that lacks a key handler reads (eventName,
\* s3, bucket, object, key, eTag), a changed text file with helium metadata,
\* a changed notebook without a version id, and a deleted text file.
TextObject == [ext |-> ".txt", string |-> <<1, 2>>, wellformed |-> FALSE, version_id |-> "v1"]
NotebookObject == [ext |-> ".ipynb", string |-> <<1>>, wellformed |-> TRUE, version_id |-> "None"]
HandlerRecords ==
    {[malformed |-> TRUE, eventName |-> OBJECT_PUT, key |-> "a",
      object |-> TextObject, helium |-> NoHelium],
     [malformed |-> FALSE, eventName |-> OBJECT_PUT, key |-> "a",
      object |-> TextObject, helium |-> FullHelium],
     [malformed |-> FALSE, eventName |-> OBJECT_PUT, key |-> "b",
      object |-> NotebookObject, helium |-> NoHelium],
     [malformed |-> FALSE, eventName |-> OBJECT_DELETE, key |-> "a",
      object |-> TextObject, helium |-> NoHelium]}

\* The messages of an event: a body that does not decode, the test event,
\* a body with neither Records nor the test event, a body with Records.
Messages ==
    {[kind |-> k, records |-> <<>>] : k \in {"undecodable", "test_event", "no_records"}}
    \cup {[kind |-> "records", records |-> r] : r \in SeqsUpTo(HandlerRecords, MaxRecords)}

\* json.loads(message["body"]), json.loads(body["Message"]) raise
DecodeRaises(m) == m.kind = "undecodable"

\* (mutant) the event is compared with the name without its prefix
IsOtherEvent(m) == m.kind = "none"

\* "Records" not in body_message and body_message.get("Event") == TEST_EVENT
IsTestEvent(m) == m.kind = "test_event"

\* the exceptions raised in handler, all of them of Exception
Exceptions == {"KeyError", "JSONDecodeError", "RetryError", "UnboundLocalError"}

\* (mutant) the records' handler names the exceptions it expects
CaughtPerRecordByName(exc) == exc \in {"KeyError", "RetryError"}

\* "except Exception" of the loop over the records
CaughtPerRecord(exc) == exc \in Exceptions

\* the queue takes a text for what append looks at: whether it is empty
AsText(string) == IF string = <<>> THEN "" ELSE "t"

\* The outer "except Exception as exc": the print reads message and event_
\* before "raise exc"; a local not yet bound raises UnboundLocalError there,
\* and that is what leaves handler. at: where exc arose.
Raise(exc, at) ==
    /\ hpc' = "done"
    /\ hresult' = [kind |-> "raised",
                   exc |-> IF message'.bound /\ event_'.bound
                             THEN exc ELSE "UnboundLocalError",
                   cause |-> exc,
                   at |-> at]

\* handler is invoked with an event of SQS, which has its Records
Invoke ==
    /\ hpc = "idle"
    /\ hpc' = "message"
    /\ UNCHANGED <<message, event_, size_, seen, ri, outcomes, probes, summary, hresult,
                   queueVars, retryVars, trimVars, contentsVars>>

\* the loop over the messages: the event has no further message and handler
\* returns, or the next message is taken, decoded and looked at
Message ==
    /\ hpc = "message"
    /\ UNCHANGED <<event_, size_, es_host, last, replays, lost, flushes,
                   retryVars, trimVars, contentsVars>>
    /\ \/ /\ hpc' = "done"
          /\ hresult' = [NoHandlerResult EXCEPT !.kind = "returned"]
          /\ UNCHANGED <<message, seen, ri, outcomes, probes, summary, batch_processor>>
       \/ /\ Len(seen) < MaxMessages
          /\ \E m \in Messages :
               /\ message' = Bound(m)
               /\ seen' = Append(seen, m.kind)
               /\ ri' = 1
               /\ outcomes' = <<>>
               /\ probes' = <<>>
               /\ summary' = NoSummary
               /\ IF DecodeRaises(m)
                    THEN Raise("JSONDecodeError", "message") /\ UNCHANGED batch_processor
                  ELSE IF IsTestEvent(m)
                    \* continue
                    THEN UNCHANGED <<hpc, hresult, batch_processor>>
                  ELSE /\ batch_processor' = DocumentQueue(TRUE)
                       /\ hpc' = "records"
                       /\ UNCHANGED hresult

\* the body of the loop over the records, for the record rec with handler's
\* local size as it stands: the exception it raises if any, the local size
\* and the queue after it, and whether a document was appended
record_body(rec, size_before, queue, es, head, s3, sink) ==
    LET o == rec.object
        skip(exc, size_after) ==
            [raised |-> exc, size |-> size_after, queue |-> queue, appended |-> FALSE]
    IN  \* event_["eventName"], event_["s3"]["object"]["key"], ...
        IF rec.malformed THEN skip("KeyError", size_before)
        \* retry_s3("head", context, bucket, key, size, ...): size is read
        ELSE IF ~size_before.bound THEN skip("UnboundLocalError", size_before)
        ELSE IF head = "RetryError" THEN skip("RetryError", size_before)
        ELSE
          LET size == Len(ObjectBytes(o))
              version_id == o.version_id
          IN  IF rec.eventName = OBJECT_DELETE
                THEN LET r == append(queue, rec.eventName, 0, None, rec.key, "",
                                     version_id, es, sink)
                     IN  [raised |-> IF r.raised THEN "KeyError" ELSE "none",
                          size |-> Bound(size), queue |-> r.self, appended |-> TRUE]
              ELSE
                LET c == get_contents(o, o.ext, ETag, version_id, size, s3)
                IN  IF c.raised # "none" THEN skip(c.raised, Bound(size))
                    ELSE LET r == append(queue, rec.eventName, size, rec.helium,
                                         rec.key, AsText(c.text), version_id, es, sink)
                         IN  [raised |-> IF r.raised THEN "KeyError" ELSE "none",
                              size |-> Bound(size), queue |-> r.self, appended |-> TRUE]

\* S3 has the answers for rec: the head of its object succeeds and, for an
\* event that is no deletion, so does the get of its content
Answered(rec, head, s3) ==
    /\ head = "returned"
    /\ \/ rec.eventName = OBJECT_DELETE
       \/ ~get_object(rec.object,
                      call(Len(ObjectBytes(rec.object)), DOC_SIZE_LIMIT_BYTES, ETag,
                           rec.object.version_id),
                      s3).raised

\* one turn of the loop over the records, its try and except included; S3
\* answers the head and the get of the record's object, when they are made,
\* with head and s3
Record ==
    /\ hpc = "records"
    /\ ri <= Len(message.value.records)
    /\ UNCHANGED <<message, seen, es_host, last, replays, lost, flushes,
                   retryVars, trimVars, contentsVars>>
    /\ LET rec == message.value.records[ri]
           \* the document of rec as the sink sees it
           shape == Body(rec.eventName, 0, None, rec.key, "", rec.object.version_id)
           done(r, head, s3) ==
               /\ event_' = Bound(rec)
               /\ probes' = Append(probes, Answered(rec, head, s3))
               /\ size_' = r.size
               /\ batch_processor' = r.queue
               /\ outcomes' = Append(outcomes, IF r.raised = "none" THEN "appended"
                                               ELSE r.raised)
               /\ summary' = [summary EXCEPT !.docs = @ + (IF r.appended THEN 1 ELSE 0)]
               /\ ri' = ri + 1
               /\ IF r.raised = "none" \/ CaughtPerRecord(r.raised)
                    THEN UNCHANGED <<hpc, hresult>>
                    ELSE Raise(r.raised, "record")
       IN  \E head \in {"returned", "RetryError"}, s3 \in S3Outcomes :
             \* the sink is drawn when the turn gets as far as append
             \E sink \in (IF rec.malformed \/ ~size_.bound \/ ~Answered(rec, head, s3)
                             THEN {SessionFails}
                             ELSE SinkInputs(Append(batch_processor.queue, shape))) :
               done(record_body(rec, size_, batch_processor, es_host, head, s3, sink),
                    head, s3)

\* after the last record: batch_processor.send_all(), then the next message
Finish ==
    /\ hpc = "records"
    /\ ri > Len(message.value.records)
    /\ UNCHANGED <<message, event_, size_, seen, ri, outcomes, probes, es_host, last, replays,
                   lost, flushes, retryVars, trimVars, contentsVars>>
    /\ \E sink \in Drawn(batch_processor.queue, TRUE) :
         LET r == send_all(batch_processor, 1, es_host, sink)
         IN  /\ batch_processor' = r.self
             /\ summary' = [summary EXCEPT !.send_alls = @ + 1]
             /\ IF r.raised
                  THEN Raise("KeyError", "send_all")
                  ELSE hpc' = "message" /\ UNCHANGED hresult

HandlerInit ==
    /\ QueueInit
    /\ RetryIdle
    /\ RestIdle

HandlerNext == Invoke \/ Message \/ Record \/ Finish

SpecHandler == HandlerInit /\ [][HandlerNext]_vars

----------------------------------------------------------------------------
(* Claims about the queue *)

Flushed == EventsOf(last.trace, "send_all", 1) # {}

\* C1: replay depth is at most one. Every queue built and every send_all and
\* bulk call made under one call on the first-generation queue belongs to
\* generation 1 or 2: a queue built with retry_errors=False builds and
\* flushes no queue of its own, whatever the sink answers.
C1_ReplayDepthAtMostOne ==
    \A i \in 1..Len(last.trace) : last.trace[i].gen <= 2

\* the error queue was flushed and the sink rejected its documents
C1_Witness ==
    \E i \in EventsOf(last.trace, "bulk", 2) : last.trace[i].nerr > 0

\* C2 (as claimed): after a send_all on a non-empty queue whose bulk call
\* returned, size is 0 and the queue is empty.
C2_FlushEmptiesQueue ==
    (Flushed /\ last.before # <<>> /\ last.returned)
        => (batch_processor.size = 0 /\ is_empty(batch_processor))

\* C3 (as claimed): over the life of the queue no document identity is
\* submitted in more than one bulk call of an error queue.
C3_ReplayedAtMostOnce ==
    \A id \in Ids : replays[id] <= 1

\* the documents of queue whose _id is id
WithId(queue, id) == {i \in 1..Len(queue) : queue[i].id = id}

\* C4 (as claimed): a flush that returns exactly one error descriptor, a
\* mapper_parsing_exception for document D, leaves in the error queue exactly
\* one document: D with system_meta and user_meta empty mappings and every
\* other field as it was, none added.
C4_ReplayStripsBothMetadata ==
    (last.returned /\ Len(last.errors) = 1 /\ IsMapperError(last.errors[1]))
        => /\ Len(last.error_queue) = 1
           /\ \E i \in WithId(last.before, last.errors[1].id) :
                last.error_queue[1] =
                    [last.before[i] EXCEPT !.system_meta = EmptyMap, !.user_meta = EmptyMap]

\* the descriptors of errors for id that carry, under the index key, an
\* error that is a mapping of type mapper_parsing_exception
MapperErrors(errors, id) ==
    {i \in 1..Len(errors) :
        errors[i].id = id /\ errors[i].key = "index" /\ errors[i].error = "mapper"}

\* C5 (as claimed): no document with the identity of a descriptor that is not
\* a mapper_parsing_exception mapping is in the error queue.
C5_NoReplayForIdentity ==
    last.returned =>
        \A i \in 1..Len(last.errors) :
            last.errors[i].error # "mapper"
                => WithId(last.error_queue, last.errors[i].id) = {}

\* C5 (amended): a descriptor that is not a mapper_parsing_exception mapping
\* puts nothing in the error queue: per identity the error queue holds at
\* most as many documents as the flush returned mapper_parsing_exception
\* descriptors for it, and exactly as many once every descriptor is classified.
C5_ReplayOnlyForMapperErrors ==
    \A id \in Ids :
        LET replayed == Cardinality(WithId(last.error_queue, id))
            mapper == Cardinality(MapperErrors(last.errors, id))
        IN  /\ replayed <= mapper
            /\ last.classified => replayed = mapper

\* one descriptor of another kind and one mapper_parsing_exception in the
\* same answer: only the document of the second is in the error queue
C5_Witness ==
    /\ last.returned
    /\ last.error_queue # <<>>
    /\ \E i \in 1..Len(last.errors) :
         /\ last.errors[i].error \in {"other", "string"}
         /\ WithId(last.error_queue, last.errors[i].id) = {}

RECURSIVE CappedSum(_, _)
\* the sum of min(size, DOC_SIZE_LIMIT_BYTES) over the documents of queue
\* that are in docs
CappedSum(queue, docs) ==
    IF docs = {} THEN 0
    ELSE LET i == CHOOSE j \in docs : TRUE
         IN  Min(queue[i].size, DOC_SIZE_LIMIT_BYTES) + CappedSum(queue, docs \ {i})

\* C6 (as claimed): before any flush the running total is the sum of the
\* capped sizes of all appended documents, empty text or not.
C6_TotalCountsEveryDocument ==
    flushes = 0 =>
        batch_processor.size =
            CappedSum(batch_processor.queue, 1..Len(batch_processor.queue))

\* C6 (amended): before any flush the running total is the sum of the capped
\* sizes of the appended documents whose text is not empty.
C6_TotalCountsDocumentsWithText ==
    flushes = 0 =>
        batch_processor.size =
            CappedSum(batch_processor.queue,
                      {i \in 1..Len(batch_processor.queue) :
                          batch_processor.queue[i].text # ""})

\* no flush yet, a document over the cap with text and one with empty text
\* and a size of its own
C6_Witness ==
    /\ flushes = 0
    /\ \E i, j \in 1..Len(batch_processor.queue) :
         /\ batch_processor.queue[i].text # ""
         /\ batch_processor.queue[i].size > DOC_SIZE_LIMIT_BYTES
         /\ batch_processor.queue[j].text = ""
         /\ batch_processor.queue[j].size > 0

\* C7: append calls send_all before it returns exactly when the running
\* total with the new document counted is above QUEUE_LIMIT_BYTES.
C7_FlushExactlyAboveThreshold ==
    last.op = "append" => (Flushed <=> last.size_added > QUEUE_LIMIT_BYTES)

\* an append that took the total just over the threshold and flushed
C7_Witness ==
    last.op = "append" /\ Flushed /\ last.size_added = QUEUE_LIMIT_BYTES + 1

\* C8 (as claimed): no exception leaves send_all.
C8_SendAllNeverRaises ==
    ~last.raised

\* C9 (as claimed): the documents of a bulk call that raised are never
\* submitted to the sink again by a later send_all on the queue.
C9_LostDocumentsNotResent ==
    last.resent = {}

----------------------------------------------------------------------------
(* Claims about retry_s3 *)

\* C10 (as claimed): retry_s3 makes at most MAX_RETRY attempts, begins no
\* further attempt once the time remaining that it read on entry has
\* passed, and when it stops without a successful attempt it ends with an
\* error and returns no result.
C10_StopsAtDeadlineOrCap ==
    /\ attempt_number <= MAX_RETRY
    /\ attempt_number > 1 => started < time_remaining
    /\ (pc = "done" /\ result.kind = "returned") => result.attempt = attempt_number
    /\ (pc = "done" /\ result.kind # "returned") => result.kind \in {"RetryError", "ValueError"}

\* what does hold of retry_s3: the cap on the attempts, an error when no
\* attempt succeeded, and no further attempt after a failed attempt that
\* ended with the time remaining used up
RetryBounded ==
    /\ attempt_number <= MAX_RETRY
    /\ (pc = "done" /\ result.kind = "returned") => result.attempt = attempt_number
    /\ (pc = "done" /\ result.kind # "returned") => result.kind \in {"RetryError", "ValueError"}
    /\ attempt_number > 1 => started - wait_exponential(attempt_number - 1) < time_remaining

\* C11: a pinned fetch whose attempt number k succeeds, k <= MAX_RETRY, after
\* k - 1 failed attempts none of which ended with the time remaining used
\* up, returns the result of attempt k and makes exactly k attempts: a
\* failed attempt ends the retrying only when the time remaining has passed
\* or it was attempt MAX_RETRY, and a successful one ends it at once.
C11_ReturnsAtFirstSuccess ==
    pc = "done" =>
        /\ result.kind = "returned" =>
              (result.attempt = attempt_number /\ attempt_number <= MAX_RETRY)
        /\ result.kind = "RetryError" =>
              /\ result.attempt = attempt_number
              /\ (attempt_number >= MAX_RETRY \/ now >= time_remaining)

\* two failed attempts and a third that succeeds, for a pinned request
C11_Witness ==
    /\ pc = "done"
    /\ result = [kind |-> "returned", attempt |-> 3]
    /\ attempt_number = 3
    /\ (request.VersionId # "" \/ request.IfMatch # "")

\* C18 (as claimed): every attempt for an object of size 0 carries no byte
\* range and every attempt for an object of another size carries the byte
\* range 0 to limit, whether the request is pinned by version or by etag.
C18_RangeBySize ==
    pc = "calling" =>
        request.Range = (IF args.size = 0 THEN <<>>
                         ELSE <<"bytes=0-", DOC_SIZE_LIMIT_BYTES>>)

----------------------------------------------------------------------------
(* More claims about the queue *)

\* the calls of trace that are bulk calls, of any generation
BulkCalls(trace) == {i \in 1..Len(trace) : trace[i].ev = "bulk"}

\* C19 (as claimed): a first-generation send_all whose bulk call returned
\* calls send_all on the error queue exactly once.
C19_ErrorQueueFlushedExactlyOnce ==
    (Flushed /\ last.returned) =>
        Cardinality(EventsOf(last.trace, "send_all", 2)) = 1

\* C19 (amended): a first-generation send_all whose bulk call returned calls
\* send_all on the error queue at most once and only when every returned
\* descriptor has been classified, exactly once when the classification of
\* every descriptor ran to its end; it causes at most two bulk calls.
C19_ErrorQueueFlushedOnceAfterClassification ==
    (Flushed /\ last.returned) =>
        /\ Cardinality(EventsOf(last.trace, "send_all", 2)) =
               (IF last.classified THEN 1 ELSE 0)
        /\ \A i \in EventsOf(last.trace, "send_all", 2) :
               /\ \E j \in 1..(i - 1) : last.trace[j].ev = "DocumentQueue"
               /\ last.trace[i].ids = IdsOf(last.error_queue)
        /\ Cardinality(BulkCalls(last.trace)) <= 2

\* two descriptors classified, the error queue flushed once with a bulk call
\* of its own that the sink answers with rejections
C19_Witness ==
    /\ Flushed /\ last.returned /\ last.classified
    /\ Len(last.errors) = 2
    /\ Cardinality(BulkCalls(last.trace)) = 2
    /\ \E i \in EventsOf(last.trace, "bulk", 2) : last.trace[i].nerr > 0

\* C20 (as claimed): when an append call has returned, the running total is
\* at most QUEUE_LIMIT_BYTES, also when its flush ended in a failure of the
\* transport.
C20_TotalWithinThresholdAfterAppend ==
    (last.op = "append" /\ ~last.raised) => batch_processor.size <= QUEUE_LIMIT_BYTES

----------------------------------------------------------------------------
(* Claims about the text *)

\* C12 (as claimed): the text get_contents returns, which handler puts in
\* the document, has at most DOC_SIZE_LIMIT_BYTES bytes in UTF-8, for a
\* notebook and for plain text alike.
C12_TextWithinDocLimit ==
    (content.done /\ content.raised = "none")
        => Len(encode(content.text)) <= DOC_SIZE_LIMIT_BYTES

\* C17: trim_to_bytes is idempotent and bounded. Trimming the result again
\* with the same limit gives the result back, and the encoding of the
\* result has at most limit bytes, also when the cut falls inside a
\* character of several bytes.
C17_TrimIdempotentAndBounded ==
    /\ trimmed.done => Len(encode(trimmed.string)) <= trim_limit
    /\ retrimmed.done => retrimmed.string = trimmed.string

\* a string cut inside a character of several bytes, trimmed twice
C17_Witness ==
    /\ retrimmed.done
    /\ Len(encode(trim_string)) > trim_limit
    /\ Len(encode(trimmed.string)) < trim_limit
    /\ trimmed.string # <<>>

----------------------------------------------------------------------------
(* Claims about handler *)

\* C13: a message that carries the test event and no Records makes handler
\* produce no document and call send_all on no queue, raises nothing, and
\* handler goes on to the next message (or returns when there is none).
C13_TestEventIgnored ==
    (message.bound /\ message.value.kind = "test_event") =>
        /\ hpc \in {"message", "done"}
        /\ summary = NoSummary
        /\ hresult.kind # "raised"

\* the first message was the test event and handler is in the records of
\* the message after it
C13_Witness ==
    /\ Len(seen) = 2
    /\ seen[1] = "test_event"
    /\ hpc = "records"
    /\ message.value.records # <<>>

\* C14: a record whose processing fails is skipped alone. Every record of
\* the message gets its turn, the failed one and those after it; after the
\* last one send_all is called on the message's queue, once; and the
\* failure of a record does not leave handler.
C14_FailedRecordSkippedAlone ==
    (message.bound /\ message.value.kind = "records") =>
        /\ Len(outcomes) = ri - 1
        /\ hpc = "records" => (summary.send_alls = 0 /\ hresult.kind = "none")
        /\ hpc # "records" =>
              /\ Len(outcomes) = Len(message.value.records)
              /\ summary.send_alls = 1
        /\ hresult.kind = "raised" => hresult.at # "record"

\* the first of two records failed, the second had its turn and the queue
\* of the message was sent
C14_Witness ==
    /\ message.bound /\ message.value.kind = "records"
    /\ hpc = "message"
    /\ Len(outcomes) = 2
    /\ outcomes[1] # "appended"
    /\ summary.send_alls = 1
    /\ hresult.kind = "none"

\* C15 (as claimed): a failure while a message is decoded or dispatched
\* leaves handler, and the exception that leaves handler is that failure.
C15_SameFailurePropagates ==
    /\ hresult.kind = "raised" => hresult.exc = hresult.cause
    /\ (message.bound /\ DecodeRaises(message.value)) => hresult.kind = "raised"

\* the records of message taken so far for which a document was appended
Appended == {i \in 1..Len(outcomes) : outcomes[i] = "appended"}

\* C21 (as claimed): for every record that has the keys handler reads and
\* for whose object S3 has the answers (the head succeeds and, for an event
\* that is no deletion, the get of the content), one document is appended
\* to the queue of the message, the first record of the first message
\* included, and a turn that appends adds one document, no more.
C21_OneDocumentPerRecord ==
    (message.bound /\ message.value.kind = "records") =>
        /\ \A i \in 1..Len(outcomes) :
              (~message.value.records[i].malformed /\ probes[i]) => i \in Appended
        /\ summary.docs = Cardinality(Appended)

====
